---------------------------- MODULE Spec2Model ----------------------------
(***************************************************************************)
(* mp3sync: the orchestration of one run (func do, in its two revisions:   *)
(* src/main.go with the concurrent scans, src/unnamed/part_000 with the    *)
(* sequential flow, diff, diskSpace and snycFiles) and the path            *)
(* transformer (package transform: Do, getSubFolder, getFileName,          *)
(* replaceChars).                                                          *)
(*                                                                         *)
(* Strings are sequences of one-byte tokens, as Go indexes and replaces    *)
(* them; the two bytes of the UTF-8 encoding of the inverted question mark *)
(* are the tokens "C2" and "BF".                                           *)
(***************************************************************************)
EXTENDS Integers, Sequences, FiniteSets, TLC

---------------------------------------------------------------------------
(* Bounds                                                                  *)

MaxFiles == 3       \* longest source listing
MaxFree == 4        \* largest free-space figure disk.GetInfo reports
MaxLen == 1         \* longest string handed directly to replaceChars
MaxPathLen == 4     \* longest file path handed to getSubFolder

---------------------------------------------------------------------------
(* State                                                                   *)

VARIABLES
    impl,         \* which revision of do() runs: "main" or "part000"
    pc,           \* position of do()
    files,        \* the source listing the scan produces
    task,         \* main.go: the two readFileList goroutines
    received,     \* main.go: results do() has taken from each channel
    globErr,      \* do(): var globErr bool
    errs,         \* do(): the current errs slice
    syncFiles,    \* the sync plan
    i,            \* snycFiles: position of the range loop over the plan
    attempts,     \* history: plan positions handed to sync.Do, in order
    outcomes,     \* history: TRUE where that copy succeeded
    logged,       \* history: the error lists written by logErrors
    left,         \* <<l>> once the disk-space report's left figure l is known
    startAnswer,  \* the answer typed at "Start Sync?", once asked
    ret,          \* what do() returned, "none" while it runs
    op,           \* transform: the function under evaluation
    in,           \* transform: its input
    s,            \* replaceChars: the string being rewritten
    todo,         \* replaceChars: map keys the range loop has not visited
    pass,         \* replaceChars: 0 not started, 1 first call, 2 second call
    out           \* transform: the function's result, once returned

runVars == <<impl, pc, files, task, received, globErr, errs, syncFiles, i,
             attempts, outcomes, logged, left, startAnswer, ret>>
trVars == <<op, in, s, todo, pass, out>>
vars == <<runVars, trVars>>

---------------------------------------------------------------------------
(* Errors and prompt answers                                               *)

errAbortedByUser == [kind |-> "errAbortedByUser", at |-> 0]
ErrParseTag(k) == [kind |-> "ErrParseTag", at |-> k]
LstatErr(k) == [kind |-> "lstat", at |-> k]
CopyErr(k) == [kind |-> "copy", at |-> k]

Answers == {"", "y", "n", "N", "s", "S"}

ToLower(t) == CASE t = "N" -> "n" [] t = "S" -> "s" [] OTHER -> t

---------------------------------------------------------------------------
(* Source listing                                                          *)

Sizes == {1, 2}

\* One scanned source file: its size, what transform.Do makes of its tag, and
\* what is found at its destination path.
FileKinds ==
    [tag : {"ok"}, size : Sizes, dst : {"absent", "lstatErr"}, dstSize : {0}]
    \cup [tag : {"ok"}, size : Sizes, dst : {"present"}, dstSize : Sizes]
    \cup [tag : {"parseErr", "filtered"}, size : Sizes, dst : {"absent"}, dstSize : {0}]

Listings == UNION {[1..n -> FileKinds] : n \in 0..MaxFiles}


---------------------------------------------------------------------------
(* The orchestration: helpers                                              *)

\* transform.Do as the orchestration sees it: a path, "" for a filtered file,
\* or an error for an unreadable tag.
TransformDo(f) ==
    CASE f.tag = "parseErr" -> [path |-> "", err |-> TRUE]
      [] f.tag = "filtered" -> [path |-> "", err |-> FALSE]
      [] OTHER -> [path |-> "path", err |-> FALSE]

\* osutils.FileOrPathExists(name): nothing exists at the empty path.
FileOrPathExists(name, f) == name # "" /\ f.dst # "absent"

\* sync.File.IsInSync: the destination exists and has the source's size.
IsInSync(sf) == sf.Destination.hasInfo /\ sf.Destination.size = sf.Source.size

\* diff's range loop over fileList from position k, with the plan and the
\* errors gathered so far.
RECURSIVE diffLoop(_, _, _, _)
diffLoop(fileList, k, plan, es) ==
    IF k > Len(fileList) THEN [syncFiles |-> plan, errs |-> es]
    ELSE LET v == fileList[k]
             r == TransformDo(v)
             exists == FileOrPathExists(r.path, v)
             destFile == [Name |-> r.path,
                          hasInfo |-> exists,
                          size |-> IF exists THEN v.dstSize ELSE 0]
             sf == [Source |-> [idx |-> k, size |-> v.size], Destination |-> destFile]
         IN  IF r.err THEN diffLoop(fileList, k + 1, plan, Append(es, ErrParseTag(k)))
             ELSE IF exists /\ v.dst = "lstatErr"
                  THEN diffLoop(fileList, k + 1, plan, Append(es, LstatErr(k)))
             ELSE IF ~IsInSync(sf) THEN diffLoop(fileList, k + 1, Append(plan, sf), es)
             ELSE diffLoop(fileList, k + 1, plan, es)

diff(fileList) == diffLoop(fileList, 1, <<>>, <<>>)

\* transform.Do over the whole listing (main.go:91) followed by the Diff Engine
\* (main.go:104): unreadable tags become errors, filtered entries are skipped,
\* the rest is compared with the destination listing by size.
RECURSIVE transformAndDiffLoop(_, _, _, _)
transformAndDiffLoop(fileList, k, plan, es) ==
    IF k > Len(fileList) THEN [syncFiles |-> plan, errs |-> es]
    ELSE LET v == fileList[k]
             r == TransformDo(v)
             exists == v.dst # "absent"
             destFile == [Name |-> r.path,
                          hasInfo |-> exists,
                          size |-> IF exists THEN v.dstSize ELSE 0]
             sf == [Source |-> [idx |-> k, size |-> v.size], Destination |-> destFile]
         IN  IF r.err
             THEN transformAndDiffLoop(fileList, k + 1, plan, Append(es, ErrParseTag(k)))
             ELSE IF r.path = "" \/ IsInSync(sf)
                  THEN transformAndDiffLoop(fileList, k + 1, plan, es)
             ELSE transformAndDiffLoop(fileList, k + 1, Append(plan, sf), es)

transformAndDiff(fileList) == transformAndDiffLoop(fileList, 1, <<>>, <<>>)

\* sync.Files.SpaceNeeded: the sum of the sources' sizes over the plan.
RECURSIVE SpaceNeeded(_)
SpaceNeeded(plan) ==
    IF plan = <<>> THEN 0 ELSE Head(plan).Source.size + SpaceNeeded(Tail(plan))

\* diskSpace, off by one: a run with nothing left is admitted.
diskSpace_admitsZero(free, plan) ==
    LET l == free - SpaceNeeded(plan)
    IN  [left |-> l, err |-> l < 0]

\* diskSpace(files, destination) once disk.GetInfo has answered with free.
diskSpace(free, plan) ==
    LET l == free - SpaceNeeded(plan)
    IN  [left |-> l, err |-> l < 1]

\* filesync.CalculateDiskSpace: the report, and the error of a run that lacks
\* space.
CalculateDiskSpace(free, plan) ==
    LET l == free - SpaceNeeded(plan)
    IN  [left |-> l, err |-> l < 1]

\* The errors of a batch whose copies ended as oc (TRUE: copied), one per
\* failed copy, in plan order.
RECURSIVE copyErrors(_, _)
copyErrors(oc, k) ==
    IF k > Len(oc) THEN <<>>
    ELSE (IF oc[k] THEN <<>> ELSE <<CopyErr(k)>>) \o copyErrors(oc, k + 1)

\* The tail of do(): what it returns for the errors of the sync step es, with
\* logErrors succeeding (logOk) or not.
doTail(es, g, logOk) ==
    IF Len(es) > 1
    THEN IF es[1] = errAbortedByUser THEN [ret |-> "errAbortedByUser", logs |-> FALSE]
         ELSE IF ~logOk THEN [ret |-> "errWriteLog", logs |-> FALSE]
         ELSE [ret |-> "seeLog", logs |-> TRUE]
    ELSE IF g THEN [ret |-> "seeLog", logs |-> FALSE]
    ELSE [ret |-> "nil", logs |-> FALSE]

---------------------------------------------------------------------------
(* The orchestration: initial state                                        *)

TrIdle ==
    /\ op = "none" /\ in = <<>> /\ s = <<>> /\ todo = {}
    /\ pass = 0 /\ out = <<>>

Init ==
    /\ impl \in {"main", "part000"}
    /\ pc = "start"
    /\ files \in Listings
    /\ task = [source |-> "idle", destination |-> "idle"]
    /\ received = [source |-> 0, destination |-> 0]
    /\ globErr = FALSE
    /\ errs = <<>>
    /\ syncFiles = <<>>
    /\ i = 0
    /\ attempts = <<>>
    /\ outcomes = <<>>
    /\ logged = <<>>
    /\ left = <<>>
    /\ startAnswer = "none"
    /\ ret = "none"
    /\ TrIdle

Return(v) == ret' = v /\ pc' = "returned"

---------------------------------------------------------------------------
(* do() of src/unnamed/part_000                                            *)

\* The two path checks and readFileList: a missing path or a failed scan ends
\* the run.
do_ReadFileList ==
    /\ impl = "part000" /\ pc = "start"
    /\ \E outcome \in {"noSource", "noDestination", "scanErr", "ok"} :
          CASE outcome = "ok" -> pc' = "diff" /\ ret' = ret
            [] outcome = "scanErr" -> Return("scanErr")
            [] OTHER -> Return("errPathNotExisting")
    /\ UNCHANGED <<impl, files, task, received, globErr, errs, syncFiles, i,
                   attempts, outcomes, logged, left, startAnswer, trVars>>

\* diff and, when it found errors, logErrors, up to the prompt of showErrors.
do_Diff ==
    /\ impl = "part000" /\ pc = "diff"
    /\ LET d == diff(files)
       IN  /\ syncFiles' = d.syncFiles
           /\ errs' = d.errs
           /\ IF Len(d.errs) > 0
              THEN /\ globErr' = TRUE
                   /\ \E logOk \in BOOLEAN :
                         IF logOk
                         THEN /\ logged' = Append(logged, d.errs)
                              /\ pc' = "showErrors" /\ ret' = ret
                         ELSE /\ logged' = logged
                              /\ Return("errWriteLog")
              ELSE /\ pc' = "listDiff"
                   /\ UNCHANGED <<globErr, logged, ret>>
    /\ UNCHANGED <<impl, files, task, received, i, attempts, outcomes, left,
                   startAnswer, trVars>>

\* showErrors: "n" aborts, anything else continues.
showErrors ==
    /\ pc = "showErrors"
    /\ \E t \in Answers :
          IF ToLower(t) = "n"
          THEN Return("errAbortedByUser")
          ELSE /\ pc' = IF impl = "main" THEN "diffMain" ELSE "listDiff"
               /\ ret' = ret
    /\ UNCHANGED <<impl, files, task, received, globErr, errs, syncFiles, i,
                   attempts, outcomes, logged, left, startAnswer, trVars>>

\* listDiff: the answer only decides what is printed.
listDiff ==
    /\ impl = "part000" /\ pc = "listDiff"
    /\ \E t \in Answers : pc' = "diskSpace"
    /\ UNCHANGED <<impl, files, task, received, globErr, errs, syncFiles, i,
                   attempts, outcomes, logged, left, startAnswer, ret, trVars>>

\* diskSpace and the return of its error; disk.GetInfo may fail.
do_DiskSpace ==
    /\ impl = "part000" /\ pc = "diskSpace"
    /\ \/ /\ Return("diskInfoErr")
          /\ left' = left
       \/ \E free \in 0..MaxFree :
             LET r == diskSpace(free, syncFiles)
             IN  /\ left' = <<r.left>>
                 /\ IF r.err THEN Return("notEnoughSpace")
                    ELSE pc' = "startSync" /\ ret' = ret
    /\ UNCHANGED <<impl, files, task, received, globErr, errs, syncFiles, i,
                   attempts, outcomes, logged, startAnswer, trVars>>

\* snycFiles up to its range loop: the "Start Sync?" prompt.
snycFiles_Prompt ==
    /\ impl = "part000" /\ pc = "startSync"
    /\ \E t \in Answers :
          /\ startAnswer' = t
          /\ IF ToLower(t) = "n"
             THEN errs' = <<errAbortedByUser>> /\ pc' = "finish" /\ i' = i
             ELSE errs' = <<>> /\ pc' = "copy" /\ i' = 1
    /\ UNCHANGED <<impl, files, task, received, globErr, syncFiles, attempts,
                   outcomes, logged, left, ret, trVars>>

\* copyStep leaving the loop at the first failed copy.
copyStep_stopsAtFailure(k, es, ok) ==
    [i |-> IF ok THEN k + 1 ELSE Len(syncFiles) + 1,
     errs |-> IF ok THEN es ELSE Append(es, CopyErr(k))]

\* One iteration of the range loop of snycFiles whose copy fails or not, given
\* the position k and the errors so far: the next position and the errors.
copyStep(k, es, ok) ==
    [i |-> k + 1, errs |-> IF ok THEN es ELSE Append(es, CopyErr(k))]

\* One iteration of the range loop of snycFiles: sync.Do(v) succeeds or fails.
snycFiles_Copy ==
    /\ impl = "part000" /\ pc = "copy" /\ i <= Len(syncFiles)
    /\ \E ok \in BOOLEAN :
          LET r == copyStep(i, errs, ok)
          IN  /\ attempts' = Append(attempts, i)
              /\ outcomes' = Append(outcomes, ok)
              /\ i' = r.i
              /\ errs' = r.errs
    /\ UNCHANGED <<impl, pc, files, task, received, globErr, syncFiles, logged,
                   left, startAnswer, ret, trVars>>

\* The return of snycFiles and the rest of do().
do_Finish ==
    /\ impl = "part000"
    /\ \/ pc = "finish"
       \/ pc = "copy" /\ i > Len(syncFiles)
    /\ \E logOk \in BOOLEAN :
          LET r == doTail(errs, globErr, logOk)
          IN  /\ Return(r.ret)
              /\ logged' = IF r.logs THEN Append(logged, errs) ELSE logged
              /\ globErr' = (globErr \/ r.logs \/ r.ret = "errWriteLog")
    /\ UNCHANGED <<impl, files, task, received, errs, syncFiles, i, attempts,
                   outcomes, left, startAnswer, trVars>>

---------------------------------------------------------------------------
(* do() of src/main.go                                                     *)

Tasks == {"source", "destination"}

\* make(chan FileChannel) twice and the two go statements.
do_Fork ==
    /\ impl = "main" /\ pc = "start"
    /\ task' = [t \in Tasks |-> "scanning"]
    /\ pc' = "recvSource"
    /\ UNCHANGED <<impl, files, received, globErr, errs, syncFiles, i, attempts,
                   outcomes, logged, left, startAnswer, ret, trVars>>

\* readFileList(channel, path, filter): the scan ends, with an error or with a
\* listing, and the goroutine blocks sending its result on the unbuffered
\* channel.
readFileList(t) ==
    /\ task[t] = "scanning"
    /\ \E r \in {"sendingOk", "sendingErr"} : task' = [task EXCEPT ![t] = r]
    /\ UNCHANGED <<impl, pc, files, received, globErr, errs, syncFiles, i,
                   attempts, outcomes, logged, left, startAnswer, ret, trVars>>

\* sourceResult := <-sourceChannel and the return of its error.
do_RecvSource ==
    /\ impl = "main" /\ pc = "recvSource"
    /\ task.source \in {"sendingOk", "sendingErr"}
    /\ task' = [task EXCEPT !.source = "done"]
    /\ received' = [received EXCEPT !.source = @ + 1]
    /\ IF task.source = "sendingErr" THEN Return("scanErr")
       ELSE pc' = "recvDestination" /\ ret' = ret
    /\ UNCHANGED <<impl, files, globErr, errs, syncFiles, i, attempts, outcomes,
                   logged, left, startAnswer, trVars>>

\* destinationResult := <-destinationChannel and the return of its error.
do_RecvDestination ==
    /\ impl = "main" /\ pc = "recvDestination"
    /\ task.destination \in {"sendingOk", "sendingErr"}
    /\ task' = [task EXCEPT !.destination = "done"]
    /\ received' = [received EXCEPT !.destination = @ + 1]
    /\ IF task.destination = "sendingErr" THEN Return("scanErr")
       ELSE pc' = "transform" /\ ret' = ret
    /\ UNCHANGED <<impl, files, globErr, errs, syncFiles, i, attempts, outcomes,
                   logged, left, startAnswer, trVars>>

\* Step 2, filter and transform, and logErrors when it found errors, up to the
\* prompt of showErrors.
do_Transform ==
    /\ impl = "main" /\ pc = "transform"
    /\ LET d == transformAndDiff(files)
       IN  /\ errs' = d.errs
           /\ IF Len(d.errs) > 0
              THEN /\ globErr' = TRUE
                   /\ \E logOk \in BOOLEAN :
                         IF logOk
                         THEN /\ logged' = Append(logged, d.errs)
                              /\ pc' = "showErrors" /\ ret' = ret
                         ELSE /\ logged' = logged
                              /\ Return("errWriteLog")
              ELSE /\ pc' = "diffMain"
                   /\ UNCHANGED <<globErr, logged, ret>>
    /\ UNCHANGED <<impl, files, task, received, syncFiles, i, attempts,
                   outcomes, left, startAnswer, trVars>>

\* Steps 3 and 4: diff and the prompt of listDiff.
do_DiffListDiff ==
    /\ impl = "main" /\ pc = "diffMain"
    /\ syncFiles' = transformAndDiff(files).syncFiles
    /\ \E t \in Answers : pc' = "diskSpace"
    /\ UNCHANGED <<impl, files, task, received, globErr, errs, i, attempts,
                   outcomes, logged, left, startAnswer, ret, trVars>>

\* Step 5: filesync.CalculateDiskSpace and the return of its error.
do_CalculateDiskSpace ==
    /\ impl = "main" /\ pc = "diskSpace"
    /\ \/ /\ Return("diskInfoErr")
          /\ left' = left
       \/ \E free \in 0..MaxFree :
             LET r == CalculateDiskSpace(free, syncFiles)
             IN  /\ left' = <<r.left>>
                 /\ IF r.err THEN Return("notEnoughSpace")
                    ELSE pc' = "startSync" /\ ret' = ret
    /\ UNCHANGED <<impl, files, task, received, globErr, errs, syncFiles, i,
                   attempts, outcomes, logged, startAnswer, trVars>>

\* Step 6: the "Start Sync?" prompt, filesync.Do over the whole plan (each copy
\* succeeds or fails), and the rest of do().
do_StartSync ==
    /\ impl = "main" /\ pc = "startSync"
    /\ \E t \in Answers :
          /\ startAnswer' = t
          /\ IF ToLower(t) = "n"
             THEN /\ Return("errAbortedByUser")
                  /\ UNCHANGED <<globErr, errs, i, attempts, outcomes, logged>>
             ELSE \E oc \in [1..Len(syncFiles) -> BOOLEAN], logOk \in BOOLEAN :
                     LET es == copyErrors(oc, 1)
                         r == doTail(es, globErr, logOk)
                     IN  /\ attempts' = [k \in 1..Len(syncFiles) |-> k]
                         /\ outcomes' = oc
                         /\ i' = Len(syncFiles) + 1
                         /\ errs' = es
                         /\ Return(r.ret)
                         /\ logged' = IF r.logs THEN Append(logged, es) ELSE logged
                         /\ globErr' = (globErr \/ r.logs \/ r.ret = "errWriteLog")
    /\ UNCHANGED <<impl, files, task, received, syncFiles, left, trVars>>

---------------------------------------------------------------------------
(* One run of the tool                                                     *)

Next ==
    \/ do_ReadFileList
    \/ do_Diff
    \/ showErrors
    \/ listDiff
    \/ do_DiskSpace
    \/ snycFiles_Prompt
    \/ snycFiles_Copy
    \/ do_Finish
    \/ do_Fork
    \/ \E t \in Tasks : readFileList(t)
    \/ do_RecvSource
    \/ do_RecvDestination
    \/ do_Transform
    \/ do_DiffListDiff
    \/ do_CalculateDiskSpace
    \/ do_StartSync

Spec == Init /\ [][Next]_vars

---------------------------------------------------------------------------
(* Properties of a run                                                     *)

Returned == pc = "returned"
Asked == startAnswer # "none"
Declined == Asked /\ ToLower(startAnswer) = "n"
Started == Asked /\ ToLower(startAnswer) # "n"
FailedCopies == {k \in 1..Len(outcomes) : ~outcomes[k]}

\* C1: a run whose disk-space report has left < 1 has returned the
\* not-enough-space error, never reached the Start-Sync prompt and copied
\* nothing; a run with left >= 1 passed the gate and went on to the Start-Sync
\* prompt; and no copy happens without a report with left >= 1.
C1_DiskSpaceGate ==
    /\ (left # <<>> /\ left[1] < 1) =>
          (ret = "notEnoughSpace" /\ Returned /\ ~Asked /\ attempts = <<>>)
    /\ (left # <<>> /\ left[1] >= 1) =>
          (ret # "notEnoughSpace" /\ (pc = "startSync" \/ Asked))
    /\ (attempts # <<>> \/ Asked) => (left # <<>> /\ left[1] >= 1)

\* A non-empty plan that needs exactly the free space: left = 0, refused.
C1_Witness ==
    /\ left = <<0>> /\ Len(syncFiles) > 0
    /\ ret = "notEnoughSpace" /\ attempts = <<>>

\* C2: after "n" or "N" at "Start Sync?" the run has copied nothing and do()
\* returns errAbortedByUser.
C2_AbortSignal ==
    (Declined /\ Returned) => (ret = "errAbortedByUser" /\ attempts = <<>>)

\* C3: a run whose sync step ended with at least one failed copy, and whose
\* log could be written, has logged the copy errors and returns "see log".
C3_CopyErrorsReported ==
    (Returned /\ Started /\ FailedCopies # {} /\ ret # "errWriteLog") =>
       /\ ret = "seeLog"
       /\ logged # <<>>
       /\ logged[Len(logged)] = copyErrors(outcomes, 1)

\* C4: once snycFiles is past its prompt, the copies attempted so far are the
\* plan's entries 1, 2, ... in order, each once, whatever failed before; its
\* errors are exactly one per failed copy; and it returns only after the last
\* entry of the plan was attempted.
C4_PartialFailureBatch ==
    (impl = "part000" /\ Started) =>
       /\ attempts = [k \in 1..Len(attempts) |-> k]
       /\ Len(outcomes) = Len(attempts)
       /\ i = Len(attempts) + 1
       /\ errs = copyErrors(outcomes, 1)
       /\ Returned => Len(attempts) = Len(syncFiles)

\* The plan of three files whose second copy failed: the third was attempted
\* and one error is returned.
C4_Witness ==
    /\ impl = "part000" /\ Returned /\ Len(syncFiles) = 3
    /\ attempts = <<1, 2, 3>>
    /\ outcomes = <<TRUE, FALSE, TRUE>>
    /\ errs = <<CopyErr(2)>>

\* C5: do() of main.go is past its two receives, or has returned, only when
\* both scans are over and each result was received exactly once, no scan
\* task still waiting to hand over its result.
C5_ScanJoin ==
    (impl = "main" /\ pc \notin {"start", "recvSource", "recvDestination"}) =>
       /\ received = [source |-> 1, destination |-> 1]
       /\ task = [source |-> "done", destination |-> "done"]

\* C6: no entry of the plan, and so no copy, is for a source file whose tag
\* fails the filter.
C6_FilteredNeverPlanned ==
    \A k \in 1..Len(syncFiles) : files[syncFiles[k].Source.idx].tag # "filtered"

---------------------------------------------------------------------------
(* package transform: strings                                              *)

\* s + t + ... for a sequence of strings.
RECURSIVE Concat(_)
Concat(ss) == IF ss = <<>> THEN <<>> ELSE Head(ss) \o Concat(Tail(ss))

HasPrefix(str, p) == Len(p) <= Len(str) /\ SubSeq(str, 1, Len(p)) = p

\* strings.Index: the first position at which old occurs in str, 0 if none.
Index(str, old) ==
    LET at == {j \in 1..(Len(str) - Len(old) + 1) : SubSeq(str, j, j + Len(old) - 1) = old}
    IN  IF at = {} THEN 0 ELSE CHOOSE j \in at : \A m \in at : j <= m

\* strings.Replace(str, old, new, 1), old not empty.
ReplaceFirst(str, old, new) ==
    LET j == Index(str, old)
    IN  IF j = 0 THEN str
        ELSE SubSeq(str, 1, j - 1) \o new \o SubSeq(str, j + Len(old), Len(str))

\* strings.Replace(str, k, v, -1) for a one-byte k.
RECURSIVE Replace(_, _, _)
Replace(str, k, v) ==
    IF str = <<>> THEN <<>>
    ELSE (IF Head(str) = k THEN v ELSE <<Head(str)>>) \o Replace(Tail(str), k, v)

\* strings.Split(str, sep) for a one-byte sep: always at least one part.
RECURSIVE Split(_, _)
Split(str, sep) ==
    LET j == Index(str, <<sep>>)
    IN  IF j = 0 THEN <<str>>
        ELSE <<SubSeq(str, 1, j - 1)>> \o Split(SubSeq(str, j + 1, Len(str)), sep)

PathSeparator == "/"

\* filepath.Join: the non-empty elements, separated.
RECURSIVE Join(_)
Join(elems) ==
    IF elems = <<>> THEN <<>>
    ELSE IF Head(elems) = <<>> THEN Join(Tail(elems))
    ELSE LET rest == Join(Tail(elems))
         IN  IF rest = <<>> THEN Head(elems) ELSE Head(elems) \o <<PathSeparator>> \o rest

---------------------------------------------------------------------------
(* package transform: replaceChars                                         *)

\* The table with ":" turned into "?", itself a character to be replaced.
chars_colonToQuestion ==
    [k \in {":", "\\", "/", "?", "\"", "'", "*", "+", "[", "]", ">", "<", "|"} |->
        CASE k = ":" -> <<"?">>
          [] k \in {"\\", "/"} -> <<>>
          [] k = "?" -> <<"C2", "BF">>
          [] k \in {"\"", "'"} -> <<",">>
          [] k \in {"*", "+"} -> <<"x">>
          [] k = "[" -> <<"(">>
          [] k = "]" -> <<")">>
          [] OTHER -> <<"-">>]

\* The map chars of replaceChars.
chars ==
    [k \in {":", "\\", "/", "?", "\"", "'", "*", "+", "[", "]", ">", "<", "|"} |->
        CASE k = ":" -> <<";">>
          [] k = "\\" -> <<>>
          [] k = "/" -> <<>>
          [] k = "?" -> <<"C2", "BF">>
          [] k = "\"" -> <<",">>
          [] k = "'" -> <<",">>
          [] k = "*" -> <<"x">>
          [] k = "+" -> <<"x">>
          [] k = "[" -> <<"(">>
          [] k = "]" -> <<")">>
          [] k = ">" -> <<"-">>
          [] k = "<" -> <<"-">>
          [] k = "|" -> <<"-">>]

Keys == DOMAIN chars

\* The bytes of the strings handed to replaceChars: every key of the table
\* and a letter; the bytes of the table's values come in with the second call.
Alphabet == Keys \cup {"a"}

Strings == UNION {[1..n -> Alphabet] : n \in 0..MaxLen}

---------------------------------------------------------------------------
(* package transform: getSubFolder                                         *)

defaultSubfolder == <<"d", "e", "f", "a", "u", "l", "t">>
numericSubfolder == <<"#">>

\* string(b) for a byte b followed by strings.ToUpper: ASCII letters are
\* capitalised, the byte 0xE9 becomes the rune U+00E9 and then U+00C9.
ToUpperByte(b) ==
    CASE b = "a" -> "A" [] b = "m" -> "M" [] b = "E9" -> "U+00C9" [] OTHER -> b

\* regexp.MatchString("[A-Z]", str)
MatchAZ(str) == \E j \in 1..Len(str) : str[j] \in {"A", "M"}

\* getSubFolder(fileName, source); indexing the empty first part panics.
getSubFolder(fileName, source) ==
    LET rel == ReplaceFirst(fileName, source \o <<PathSeparator>>, <<>>)
        parts == Split(rel, PathSeparator)
    IN  IF Len(parts) > 0 /\ parts[1] = <<>>
        THEN [panic |-> TRUE, val |-> <<>>]
        ELSE LET subFolder == IF Len(parts) > 0 THEN <<ToUpperByte(parts[1][1])>>
                                                 ELSE defaultSubfolder
             IN  [panic |-> FALSE,
                  val |-> IF MatchAZ(subFolder) THEN subFolder ELSE numericSubfolder]

PathBytes == {"m", "a", "1", "/", "E9"}
Sources == {<<"m">>, <<"m", "/">>}
FileNames == UNION {[1..n -> PathBytes] : n \in 0..MaxPathLen}

---------------------------------------------------------------------------
(* package transform: getFileName                                          *)

Sep == <<" ", "-", " ">>

\* The name getFileName hands to replaceChars.
assembleName(tag, ext) ==
    LET n1 == tag.Artist
        n2 == IF tag.Album # <<>> THEN n1 \o Sep \o tag.Album ELSE n1
        n3 == IF tag.Year # <<>> THEN n2 \o <<" ", "(">> \o tag.Year \o <<")">> ELSE n2
        n4 == IF tag.Disk # <<>> THEN n3 \o Sep \o tag.Disk ELSE n3
        track == IF Len(tag.Track) = 1 THEN <<"0">> \o tag.Track ELSE tag.Track
        n5 == IF tag.Track # <<>> THEN n4 \o Sep \o track ELSE n4
    IN  n5 \o Sep \o tag.Title \o ext

Ext == <<".", "m", "p", "3">>

\* Tags with every combination of empty Artist, Album and Year, and tags with
\* every combination of Disk, Track (empty, one byte, two bytes) and Title.
Tags ==
    [Artist : {<<>>, <<"Q">>}, Album : {<<>>, <<"G">>}, Year : {<<>>, <<"1", "9">>},
     Disk : {<<>>}, Track : {<<"5">>}, Title : {<<"B">>}]
    \cup [Artist : {<<"Q">>}, Album : {<<"G">>}, Year : {<<"1", "9">>},
          Disk : {<<>>, <<"2">>}, Track : {<<>>, <<"5">>, <<"1", "2">>},
          Title : {<<>>, <<"B">>}]

---------------------------------------------------------------------------
(* package transform: Do                                                   *)

\* config.Tag.Contains(tag): some entry of the list names a field of the tag
\* and its value.
Contains(list, tag) == \E e \in list : tag[e.field] = e.value

\* The filter test of Do with the whitelist taking precedence.
filterSkips_whitelistWins(tag, whiteList, blackList) ==
    \/ Cardinality(whiteList) > 0 /\ ~Contains(whiteList, tag)
    \/ /\ Cardinality(blackList) > 0 /\ Contains(blackList, tag)
       /\ ~(Cardinality(whiteList) > 0 /\ Contains(whiteList, tag))

\* The filter test of Do.
filterSkips(tag, whiteList, blackList) ==
    \/ Cardinality(whiteList) > 0 /\ ~Contains(whiteList, tag)
    \/ Cardinality(blackList) > 0 /\ Contains(blackList, tag)

FilterEntries ==
    {[field |-> "Artist", value |-> <<"Q">>], [field |-> "Album", value |-> <<"G">>]}

DoTags ==
    [Artist : {<<>>, <<"Q">>}, Album : {<<"G">>}, Year : {<<>>},
     Disk : {<<>>}, Track : {<<"5">>}, Title : {<<"B">>}]

DoInputs ==
    [tagOk : BOOLEAN, tag : DoTags, ext : {Ext},
     fileName : {<<"m", "/", "a", "/", "a">>},
     source : {<<"m">>}, destination : {<<"d">>},
     whiteList : SUBSET FilterEntries, blackList : SUBSET FilterEntries]

---------------------------------------------------------------------------
(* package transform: calls                                                *)

\* No run of do() is under way.
RunIdle ==
    /\ impl = "none" /\ pc = "idle" /\ files = <<>>
    /\ task = [source |-> "idle", destination |-> "idle"]
    /\ received = [source |-> 0, destination |-> 0]
    /\ globErr = FALSE /\ errs = <<>> /\ syncFiles = <<>> /\ i = 0
    /\ attempts = <<>> /\ outcomes = <<>> /\ logged = <<>> /\ left = <<>>
    /\ startAnswer = "none" /\ ret = "none"

TransformInit ==
    /\ RunIdle
    /\ \/ op = "replaceChars" /\ in \in Strings
       \/ op = "getFileName" /\ in \in [tag : Tags, ext : {Ext}]
       \/ op = "getSubFolder" /\ in \in [fileName : FileNames, source : Sources]
       \/ op = "Do" /\ in \in DoInputs
    /\ s = <<>> /\ todo = {} /\ pass = 0 /\ out = <<>>

\* replaceChars(s) is entered: the range over the map is about to start.
replaceChars_Call ==
    /\ op = "replaceChars" /\ pass = 0
    /\ s' = in /\ todo' = Keys /\ pass' = 1
    /\ UNCHANGED <<op, in, out, runVars>>

\* One iteration of the range over chars: the map hands out any key it has
\* not handed out yet.
replaceChars_Range ==
    /\ pass \in {1, 2}
    /\ \E k \in todo :
          /\ s' = Replace(s, k, chars[k])
          /\ todo' = todo \ {k}
    /\ UNCHANGED <<op, in, pass, out, runVars>>

\* replaceChars returns.
replaceChars_Return ==
    /\ op = "replaceChars" /\ pass \in {1, 2} /\ todo = {} /\ out = <<>>
    /\ out' = <<s>>
    /\ UNCHANGED <<op, in, s, todo, pass, runVars>>

\* replaceChars is entered again, with the string it returned as its input.
replaceChars_Again ==
    /\ op = "replaceChars" /\ pass = 1 /\ out # <<>>
    /\ in' = out[1] /\ s' = out[1] /\ todo' = Keys /\ pass' = 2 /\ out' = <<>>
    /\ UNCHANGED <<op, runVars>>

\* getFileName up to its call of replaceChars.
getFileName_Call ==
    /\ op = "getFileName" /\ pass = 0
    /\ s' = assembleName(in.tag, in.ext) /\ todo' = Keys /\ pass' = 1
    /\ UNCHANGED <<op, in, out, runVars>>

\* getFileName returns what replaceChars returned.
getFileName_Return ==
    /\ op = "getFileName" /\ pass = 1 /\ todo = {} /\ out = <<>>
    /\ out' = <<s>>
    /\ UNCHANGED <<op, in, s, todo, pass, runVars>>

\* A call of getSubFolder.
getSubFolder_Call ==
    /\ op = "getSubFolder" /\ out = <<>>
    /\ out' = <<getSubFolder(in.fileName, in.source)>>
    /\ UNCHANGED <<op, in, s, todo, pass, runVars>>

\* Do up to the call of replaceChars in getFileName: the tag is loaded and
\* tested against the lists.
Do_Call ==
    /\ op = "Do" /\ pass = 0 /\ out = <<>>
    /\ IF ~in.tagOk
       THEN /\ out' = <<[path |-> <<>>, err |-> TRUE, panic |-> FALSE]>>
            /\ UNCHANGED <<s, todo, pass>>
       ELSE IF filterSkips(in.tag, in.whiteList, in.blackList)
       THEN /\ out' = <<[path |-> <<>>, err |-> FALSE, panic |-> FALSE]>>
            /\ UNCHANGED <<s, todo, pass>>
       ELSE /\ s' = assembleName(in.tag, in.ext) /\ todo' = Keys /\ pass' = 1
            /\ out' = out
    /\ UNCHANGED <<op, in, runVars>>

\* Do from the return of getFileName: getSubFolder and filepath.Join.
Do_Return ==
    /\ op = "Do" /\ pass = 1 /\ todo = {} /\ out = <<>>
    /\ LET sub == getSubFolder(in.fileName, in.source)
       IN  out' = IF sub.panic
                  THEN <<[path |-> <<>>, err |-> FALSE, panic |-> TRUE]>>
                  ELSE <<[path |-> Join(<<in.destination, sub.val, s>>),
                          err |-> FALSE, panic |-> FALSE]>>
    /\ UNCHANGED <<op, in, s, todo, pass, runVars>>

TransformNext ==
    \/ replaceChars_Call
    \/ replaceChars_Range
    \/ replaceChars_Return
    \/ replaceChars_Again
    \/ getFileName_Call
    \/ getFileName_Return
    \/ getSubFolder_Call
    \/ Do_Call
    \/ Do_Return

TransformSpec == TransformInit /\ [][TransformNext]_vars

---------------------------------------------------------------------------
(* Properties of package transform                                         *)

Matches(list, tag) == \E e \in list : tag[e.field] = e.value

\* C7: with a readable tag, Do returns the empty path and no error when the
\* blacklist is not empty and holds the tag, whatever the whitelist, and when
\* the whitelist is not empty and does not hold the tag; in every other case
\* it returns a path.
C7_FilterPrecedence ==
    (op = "Do" /\ out # <<>> /\ in.tagOk) =>
       LET r == out[1]
           skipped == r.path = <<>> /\ ~r.err /\ ~r.panic
           blackListed == in.blackList # {} /\ Matches(in.blackList, in.tag)
           notWhiteListed == in.whiteList # {} /\ ~Matches(in.whiteList, in.tag)
       IN  /\ blackListed => skipped
           /\ notWhiteListed => skipped
           /\ (~blackListed /\ ~notWhiteListed) => (~skipped /\ r.path # <<>>)

\* A tag on both lists: skipped.
C7_Witness ==
    /\ op = "Do" /\ out # <<>> /\ in.tagOk
    /\ in.whiteList # {} /\ Matches(in.whiteList, in.tag)
    /\ in.blackList # {} /\ Matches(in.blackList, in.tag)
    /\ out[1].path = <<>> /\ ~out[1].err

\* The non-empty strings of parts, separated by " - ".
RECURSIVE JoinNonEmpty(_)
JoinNonEmpty(parts) ==
    IF parts = <<>> THEN <<>>
    ELSE IF Head(parts) = <<>> THEN JoinNonEmpty(Tail(parts))
    ELSE LET rest == JoinNonEmpty(Tail(parts))
         IN  IF rest = <<>> THEN Head(parts) ELSE Head(parts) \o Sep \o rest

ExpectedName(tag, ext) ==
    LET album == IF tag.Album = <<>> THEN <<>>
                 ELSE IF tag.Year = <<>> THEN tag.Album
                 ELSE tag.Album \o <<" ", "(">> \o tag.Year \o <<")">>
        track == IF Len(tag.Track) = 1 THEN <<"0">> \o tag.Track ELSE tag.Track
    IN  JoinNonEmpty(<<tag.Artist, album, tag.Disk, track, tag.Title>>) \o ext

\* C8: getFileName returns the non-empty parts among Artist, Album with
\* " (Year)" when both are there, disk, track (padded when one byte long) and
\* Title, separated by " - ", followed by the extension.
C8_FilenameAssembly ==
    (op = "getFileName" /\ out # <<>>) => out[1] = ExpectedName(in.tag, in.ext)

\* C9: for a file path under the source root, getSubFolder returns, without
\* failing, the default subfolder when nothing follows the root, the
\* capitalised first byte of the first segment when that is an ASCII letter,
\* and "#" otherwise.
C9_SubfolderRule ==
    (/\ op = "getSubFolder" /\ out # <<>>
     /\ HasPrefix(in.fileName, in.source \o <<PathSeparator>>)) =>
       LET r == out[1]
           rel == SubSeq(in.fileName, Len(in.source) + 2, Len(in.fileName))
       IN  /\ ~r.panic
           /\ rel = <<>> => r.val = defaultSubfolder
           /\ (rel # <<>> /\ rel[1] \in {"a", "m"}) => r.val = <<ToUpperByte(rel[1])>>
           /\ (rel # <<>> /\ rel[1] \notin {"a", "m"}) => r.val = numericSubfolder

Sanitized(str) == \A j \in 1..Len(str) : str[j] \notin Keys

\* Every byte that is a key of the table replaced by the key's value.
Canonical(str) ==
    Concat([j \in 1..Len(str) |-> IF str[j] \in Keys THEN chars[str[j]] ELSE <<str[j]>>])

\* C10: in whatever order the range loop visits the table, a key already
\* visited never occurs in the string again, so that the string returned holds
\* no key; the string returned is the input with each key replaced by its
\* value, the same for every order; and replaceChars returns a string it has
\* returned unchanged.
C10_Sanitization ==
    /\ pass \in {1, 2} => \A j \in 1..Len(s) : s[j] \in Keys => s[j] \in todo
    /\ (op = "replaceChars" /\ pass = 1 /\ todo = {}) => s = Canonical(in)
    /\ (op = "replaceChars" /\ out # <<>>) => Sanitized(out[1])
    /\ (op = "replaceChars" /\ pass = 2) => s = in

\* The second call has returned the two bytes the first call made of "?".
C10_Witness ==
    /\ op = "replaceChars" /\ pass = 2 /\ todo = {}
    /\ in = <<"C2", "BF">> /\ out = <<in>>

=============================================================================
